---- MODULE Spec2Model ----
(***************************************************************************)
(* A model of d2ro: the sparse layout builder (SparseStruct), the record   *)
(* wrapper (Constructed / CTLOFile: parse, field write, build, save with   *)
(* backup) and the diff engine (Constructed.diff behind the diff command). *)
(*                                                                         *)
(* Bytes are naturals below 256, byte strings are sequences of bytes.      *)
(* A field name is a pair: <<"_unk", n>> is the filler name "_unk_<n>",    *)
(* <<"changed", i>> the declared attribute name "changed_<i>".             *)
(***************************************************************************)
EXTENDS Integers, Sequences, FiniteSets, TLC

VARIABLES
    cls,        \* the SparseStruct subclass: size, align, fields (and its class body)
    construct,  \* the Struct that cls() returned, or the exception it raised
    filled,     \* the last direct call of cls._fill_in: arguments and result
    fs,         \* the file system: path -> contents
    obj,        \* the CTLOFile instance: _data, _parsed, _path
    pc,         \* position inside CTLOFile.save
    frame,      \* save's locals: path, backup, data, bkp_path
    err,        \* the exception the last operation raised ("" when none)
    args,       \* the diff command's arguments
    out         \* what the diff command printed: one entry per reported field

vars == <<cls, construct, filled, fs, obj, pc, frame, err, args, out>>

(***************************************************************************)
(* Bounds of the model.                                                    *)
(***************************************************************************)
MaxSize == 5      \* largest total size of an enumerated SparseStruct subclass
MaxAlign == 3     \* largest alignment of an enumerated SparseStruct subclass
MaxFields == 2    \* most Field attributes in an enumerated class body
MaxPokes == 1     \* most non-zero bytes in an enumerated file or buffer
MaxOps == 3       \* most top-level operations in one session on a record
MaxBkp == 1       \* most backup copies beside one destination

(***************************************************************************)
(* construct: the fixed-size types the layouts use.                        *)
(***************************************************************************)
FormatField(length) == [kind |-> "FormatField", length |-> length]
Int8ul == FormatField(1)
Int32ul == FormatField(4)
Bytes(length) == [kind |-> "Bytes", length |-> length]
sizeof(struct) == struct.length

RECURSIVE SumSizes(_, _, _)
SumSizes(subcons, lo, hi) ==
    IF lo > hi THEN 0
    ELSE IF lo = hi THEN sizeof(subcons[lo].struct)
    ELSE LET mid == (lo + hi) \div 2
         IN SumSizes(subcons, lo, mid) + SumSizes(subcons, mid + 1, hi)

Struct_sizeof(subcons) == SumSizes(subcons, 1, Len(subcons))

(***************************************************************************)
(* Python dict: insertion ordered, assignment to an existing key replaces  *)
(* the value in place. A dict is a sequence of [name, struct] items.       *)
(* DictUpdate assigns a run of items with pairwise distinct names.         *)
(***************************************************************************)
HasKey(d, name) == \E i \in 1..Len(d) : d[i].name = name

DictUpdate(d, items) ==
    [i \in 1..Len(d) |->
        IF HasKey(items, d[i].name)
        THEN items[CHOOSE k \in 1..Len(items) : items[k].name = d[i].name]
        ELSE d[i]]
    \o SelectSeq(items, LAMBDA it : ~HasKey(d, it.name))

DictSet(d, name, struct) == DictUpdate(d, <<[name |-> name, struct |-> struct]>>)

(***************************************************************************)
(* Field and SparseStruct.__init_subclass__. The class body is a sequence  *)
(* of Field attributes in declaration order; dir(cls) lists the attribute  *)
(* names sorted, and the dict comprehension keeps, for one offset, the     *)
(* attribute that dir lists last.                                          *)
(***************************************************************************)
Field(offset, struct, name) == [offset |-> offset, struct |-> struct, name |-> name]

Attr(i) == <<"changed", i>>
Unk(pos) == <<"_unk", pos>>

Offsets(body) == {body[i].offset : i \in 1..Len(body)}

LastInDir(body, offset) ==
    LET at == {i \in 1..Len(body) : body[i].offset = offset}
    IN body[CHOOSE i \in at : \A j \in at : body[j].name[2] <= body[i].name[2]]

init_subclass(size, align, body) ==
    [size |-> size, align |-> align, body |-> body,
     fields |-> [o \in Offsets(body) |-> LastInDir(body, o)]]

RECURSIVE sorted_descending(_, _)
sorted_descending(fields, keys) ==
    IF keys = {} THEN <<>>
    ELSE LET o == CHOOSE k \in keys : \A j \in keys : k >= j
         IN <<fields[o]>> \o sorted_descending(fields, keys \ {o})
RECURSIVE sorted(_, _)
sorted(fields, keys) ==
    IF keys = {} THEN <<>>
    ELSE LET o == CHOOSE k \in keys : \A j \in keys : k <= j
         IN <<fields[o]>> \o sorted(fields, keys \ {o})

(***************************************************************************)
(* SparseStruct._fill_in                                                   *)
(***************************************************************************)
(* the while loop: one filler of align bytes at pos, pos + align, ... below offset *)
FillWhile(align, struct_dict, pos, offset) ==
    LET n == IF pos < offset THEN (offset - pos + align - 1) \div align ELSE 0
        items == [k \in 1..n |-> [name |-> Unk(pos + (k - 1) * align), struct |-> Bytes(align)]]
    IN [struct_dict |-> DictUpdate(struct_dict, items), pos |-> pos + n * align, raised |-> ""]

fill_in_one_filler(c, struct_dict, pos, offset) ==
    [struct_dict |-> DictSet(struct_dict, Unk(pos), Bytes(offset - pos)),
     pos |-> offset, raised |-> ""]
fill_in_trailing_partial(c, struct_dict, pos, offset) ==
    LET fill == offset - pos
    IN IF fill > c.align /\ c.align # 0
       THEN LET body == FillWhile(c.align, struct_dict, pos, offset - (fill % c.align))
            IN IF fill % c.align # 0
               THEN [struct_dict |-> DictSet(body.struct_dict, Unk(body.pos), Bytes(fill % c.align)),
                     pos |-> offset, raised |-> ""]
               ELSE body
       ELSE fill_in_one_filler(c, struct_dict, pos, offset)
_fill_in(c, struct_dict, pos, offset) ==
    LET fill == offset - pos
    IN IF fill > c.align
       THEN IF c.align = 0
            THEN [struct_dict |-> struct_dict, pos |-> pos, raised |-> "ZeroDivisionError"]
            ELSE IF fill % c.align # 0
                 THEN LET partial == fill - ((fill \div c.align) * c.align)
                      IN FillWhile(c.align, DictSet(struct_dict, Unk(pos), Bytes(partial)),
                                   pos + partial, offset)
                 ELSE FillWhile(c.align, struct_dict, pos, offset)
       ELSE [struct_dict |-> DictSet(struct_dict, Unk(pos), Bytes(fill)),
             pos |-> offset, raised |-> ""]

(***************************************************************************)
(* SparseStruct.__new__                                                    *)
(***************************************************************************)
RECURSIVE NewFor(_, _, _, _)
NewFor(c, items, struct_dict, pos) ==
    IF items = <<>> THEN [struct_dict |-> struct_dict, pos |-> pos, raised |-> ""]
    ELSE LET f == Head(items)
             gap == IF pos # f.offset
                    THEN _fill_in(c, struct_dict, pos, f.offset)
                    ELSE [struct_dict |-> struct_dict, pos |-> pos, raised |-> ""]
         IN IF gap.raised # "" THEN gap
            ELSE NewFor(c, Tail(items), DictSet(gap.struct_dict, f.name, f.struct),
                        gap.pos + sizeof(f.struct))

NoConstruct == [state |-> "none", subcons |-> <<>>]
Raised(exc) == [state |-> exc, subcons |-> <<>>]

__new__(c) ==
    LET walk == NewFor(c, sorted(c.fields, DOMAIN c.fields), <<>>, 0)
        tail == IF walk.raised = "" /\ walk.pos < c.size
                THEN _fill_in(c, walk.struct_dict, walk.pos, c.size)
                ELSE walk
    IN IF tail.raised # "" THEN Raised(tail.raised)
       ELSE IF Struct_sizeof(tail.struct_dict) # c.size THEN Raised("AssertionError")
       ELSE [state |-> "ok", subcons |-> tail.struct_dict]

(***************************************************************************)
(* Constructed._offsets_and_sizes: a dict name -> (offset, size), here a   *)
(* sequence of [name, offset, size] in insertion order. The loop over the  *)
(* subcons is evaluated by halves.                                         *)
(***************************************************************************)
RECURSIVE OffsetsFor(_, _, _, _)
OffsetsFor(subcons, lo, hi, offset) ==
    IF lo > hi THEN [items |-> <<>>, offset |-> offset]
    ELSE IF lo = hi
    THEN [items |-> <<[name |-> subcons[lo].name, offset |-> offset,
                       size |-> sizeof(subcons[lo].struct)]>>,
          offset |-> offset + sizeof(subcons[lo].struct)]
    ELSE LET mid == (lo + hi) \div 2
             left == OffsetsFor(subcons, lo, mid, offset)
             right == OffsetsFor(subcons, mid + 1, hi, left.offset)
         IN [items |-> left.items \o right.items, offset |-> right.offset]

_offsets_and_sizes(struct) ==
    DictUpdate(<<>>, OffsetsFor(struct.subcons, 1, Len(struct.subcons), 0).items)

(***************************************************************************)
(* The shipped record kind.                                                *)
(***************************************************************************)
CtloStruct ==
    init_subclass(900, 4, <<Field(12, Int32ul, Attr(0)),
                            Field(60, Int32ul, Attr(1)),
                            Field(180, Int32ul, Attr(2))>>)

(***************************************************************************)
(* construct: parsing and building. A parsed value is tagged: a bytes      *)
(* object, an int, or the stream object a Container keeps under "_io".     *)
(* A Container or dict is a sequence of [name, value] items.               *)
(***************************************************************************)
BytesVal(b) == [t |-> "bytes", b |-> b, n |-> 0]
IntVal(n) == [t |-> "int", b |-> <<>>, n |-> n]
IoVal == [t |-> "io", b |-> <<>>, n |-> 0]
Io == <<"_io", 0>>

RECURSIVE unpack_le(_)
unpack_le(b) == IF b = <<>> THEN 0 ELSE Head(b) + 256 * unpack_le(Tail(b))

pack_be(n, length) == [i \in 1..length |-> (n \div (256 ^ (length - i))) % 256]
pack_le(n, length) == [i \in 1..length |-> (n \div (256 ^ (i - 1))) % 256]

(* every integer of the model is below 2^31, so below the 2^32 a 4 byte field excludes *)
InRange(n, length) == n >= 0 /\ (length >= 4 \/ n < 256 ^ length)

parse_field(struct, b) ==
    IF struct.kind = "Bytes" THEN BytesVal(b) ELSE IntVal(unpack_le(b))

build_field(struct, v) ==
    IF struct.kind = "Bytes"
    THEN IF v.t = "bytes" /\ Len(v.b) = struct.length
         THEN [raised |-> "", data |-> v.b]
         ELSE [raised |-> "StreamError", data |-> <<>>]
    ELSE IF v.t = "int" /\ InRange(v.n, struct.length)
         THEN [raised |-> "", data |-> pack_le(v.n, struct.length)]
         ELSE [raised |-> "FormatFieldError", data |-> <<>>]

(* the subcons read the stream in order, each its own size, from where the last stopped *)
RECURSIVE ParseFor(_, _, _, _, _)
ParseFor(subcons, lo, hi, data, at) ==
    IF lo > hi THEN [raised |-> "", items |-> <<>>, at |-> at]
    ELSE IF lo = hi
    THEN LET n == sizeof(subcons[lo].struct)
         IN IF n < 0 \/ at + n > Len(data)
            THEN [raised |-> "StreamError", items |-> <<>>, at |-> at]
            ELSE [raised |-> "",
                  items |-> <<[name |-> subcons[lo].name,
                               value |-> parse_field(subcons[lo].struct,
                                                     SubSeq(data, at + 1, at + n))]>>,
                  at |-> at + n]
    ELSE LET mid == (lo + hi) \div 2
             left == ParseFor(subcons, lo, mid, data, at)
             right == ParseFor(subcons, mid + 1, hi, data, left.at)
         IN IF left.raised # "" THEN left
            ELSE IF right.raised # "" THEN right
            ELSE [raised |-> "", items |-> left.items \o right.items, at |-> right.at]

(* Struct.parse(data): what the stream holds after the last subcon is not looked at *)
Struct_parse(struct, data) ==
    LET r == ParseFor(struct.subcons, 1, Len(struct.subcons), data, 0)
    IN IF r.raised # "" THEN [raised |-> r.raised, value |-> <<>>]
       ELSE [raised |-> "", value |-> <<[name |-> Io, value |-> IoVal]>> \o r.items]

Lookup(d, name) == d[CHOOSE i \in 1..Len(d) : d[i].name = name].value

RECURSIVE Join(_, _, _)
Join(pieces, lo, hi) ==
    IF lo > hi THEN <<>>
    ELSE IF lo = hi THEN pieces[lo]
    ELSE LET mid == (lo + hi) \div 2
         IN Join(pieces, lo, mid) \o Join(pieces, mid + 1, hi)

(* Struct.build(obj): each subcon builds obj[name], in order *)
Struct_build(struct, d) ==
    LET n == Len(struct.subcons)
        built == [i \in 1..n |->
                    IF HasKey(d, struct.subcons[i].name)
                    THEN build_field(struct.subcons[i].struct, Lookup(d, struct.subcons[i].name))
                    ELSE [raised |-> "KeyError", data |-> <<>>]]
        bad == {i \in 1..n : built[i].raised # ""}
    IN IF bad # {}
       THEN [raised |-> built[CHOOSE i \in bad : \A j \in bad : i <= j].raised, data |-> <<>>]
       ELSE [raised |-> "", data |-> Join([i \in 1..n |-> built[i].data], 1, n)]

(***************************************************************************)
(* constructed._build and constructed._clean on a Container whose values   *)
(* are bytes and ints (the layouts hold no nested Container, no RawCopy).  *)
(***************************************************************************)
_build(container) == SelectSeq(container, LAMBDA item : item.name # Io)

_clean(v) == v

(***************************************************************************)
(* Values the variables of the other components hold while one component   *)
(* is exercised.                                                           *)
(***************************************************************************)
None == [name |-> "None", bkp |-> 0]
NoFilled == [called |-> FALSE, pos |-> 0, offset |-> 0, struct_dict |-> <<>>, ret |-> 0,
             raised |-> ""]
NoObj == [state |-> "none", data |-> <<>>, parsed |-> <<>>, path |-> None]
NoFrame == [path |-> None, backup |-> FALSE, data |-> <<>>, ops |-> 0]
NoErr == [op |-> "", at |-> "", exc |-> ""]
NoArgs == [paths |-> <<>>, binary |-> FALSE, unknowns |-> FALSE,
           keys |-> [given |-> FALSE, names |-> {}], max_len |-> 0]
NoFs == [p \in {} |-> <<>>]

(***************************************************************************)
(* Layout construction: any class body over small sizes, and the shipped   *)
(* CtloStruct; the class statement has run, cls() has not.                 *)
(***************************************************************************)
FieldTypes == {Int8ul, Int32ul}

Bodies ==
    UNION {{b \in [1..n -> [offset : 0..MaxSize, struct : FieldTypes,
                            name : {Attr(i) : i \in 0..(n - 1)}]] :
              \A i, j \in 1..n : i # j => b[i].name # b[j].name} : n \in 0..MaxFields}

Classes ==
    {init_subclass(size, align, body) :
        size \in (MaxSize - 2)..MaxSize, align \in 0..MaxAlign, body \in Bodies}
    \cup {CtloStruct}

InitLayout ==
    /\ cls \in Classes
    /\ construct = NoConstruct
    /\ filled = NoFilled
    /\ fs = NoFs /\ obj = NoObj /\ pc = "idle" /\ frame = NoFrame /\ err = NoErr
    /\ args = NoArgs /\ out = <<>>

New ==
    /\ construct.state = "none"
    /\ construct' = __new__(cls)
    /\ UNCHANGED <<cls, filled, fs, obj, pc, frame, err, args, out>>

NextLayout == New

SpecLayout == InitLayout /\ [][NextLayout]_vars

(***************************************************************************)
(* _fill_in called directly on a gap, on the empty dict.                   *)
(***************************************************************************)
InitFillIn ==
    /\ cls \in {init_subclass(size, align, <<>>) :
                  size \in (MaxSize - 2)..MaxSize, align \in 0..MaxAlign}
    /\ construct = NoConstruct
    /\ filled = NoFilled
    /\ fs = NoFs /\ obj = NoObj /\ pc = "idle" /\ frame = NoFrame /\ err = NoErr
    /\ args = NoArgs /\ out = <<>>

FillIn(pos, offset) ==
    /\ pos # offset
    /\ LET r == _fill_in(cls, <<>>, pos, offset)
       IN filled' = [called |-> TRUE, pos |-> pos, offset |-> offset,
                     struct_dict |-> r.struct_dict, ret |-> r.pos, raised |-> r.raised]
    /\ UNCHANGED <<cls, construct, fs, obj, pc, frame, err, args, out>>

NextFillIn == \E pos, offset \in 0..(2 * MaxSize) : FillIn(pos, offset)

SpecFillIn == InitFillIn /\ [][NextFillIn]_vars

(***************************************************************************)
(* Claims about the layout builder.                                        *)
(***************************************************************************)
Built == construct.state # "none"

End(f) == f.offset + sizeof(f.struct)

InBounds(c) == \A i \in 1..Len(c.body) : End(c.body[i]) <= c.size

Overlap(f, g) == f.offset < End(g) /\ g.offset < End(f)

NoOverlap(c) == \A i, j \in 1..Len(c.body) : i # j => ~Overlap(c.body[i], c.body[j])

ValidClass(c) == c.align >= 1 /\ InBounds(c) /\ NoOverlap(c)

Tiles(c, struct) ==
    LET table == _offsets_and_sizes(struct)
        n == Len(struct.subcons)
    IN /\ struct.state = "ok"
       /\ Len(table) = n
       /\ \A i \in 1..n : sizeof(struct.subcons[i].struct) >= 1
       /\ \A i, j \in 1..n : i # j => struct.subcons[i].name # struct.subcons[j].name
       /\ n > 0 => table[1].offset = 0 /\ table[n].offset + table[n].size = c.size
       /\ n = 0 => c.size = 0
       /\ \A i \in 1..(n - 1) : table[i + 1].offset = table[i].offset + table[i].size
       /\ Struct_sizeof(struct.subcons) = c.size
       /\ \A k \in 1..Len(c.body) :
            \E i \in 1..n : /\ table[i].name = c.body[k].name
                            /\ table[i].offset = c.body[k].offset
                            /\ table[i].size = sizeof(c.body[k].struct)
                            /\ struct.subcons[i].struct = c.body[k].struct

\* C2: for a valid class (positive alignment, declared fields in bounds and pairwise
\* disjoint, in any declaration order) the built layout tiles the record: contiguous,
\* every size positive, every declared field at its declared offset in the offset
\* table, sizes summing to the total size.
C2_LayoutCompleteness == (Built /\ ValidClass(cls)) => Tiles(cls, construct)

C2_Witness ==
    /\ Built /\ ValidClass(cls) /\ cls # CtloStruct
    /\ Len(cls.body) >= 2
    /\ cls.body[1].offset > cls.body[2].offset
    /\ cls.body[1].name[2] < cls.body[2].name[2]
    /\ Len(construct.subcons) > Len(cls.body)
    /\ construct.state = "ok"

\* C4: a class with a declared field out of bounds, or with two overlapping declared
\* fields (two at one offset included), never yields a layout.
C4_InvalidLayoutsFatal ==
    (Built /\ (~InBounds(cls) \/ ~NoOverlap(cls))) => construct.state # "ok"

SevenFields ==
    <<[name |-> Unk(0), struct |-> Bytes(12)],
      [name |-> Attr(0), struct |-> Int32ul],
      [name |-> Unk(16), struct |-> Bytes(44)],
      [name |-> Attr(1), struct |-> Int32ul],
      [name |-> Unk(64), struct |-> Bytes(116)],
      [name |-> Attr(2), struct |-> Int32ul],
      [name |-> Unk(184), struct |-> Bytes(716)]>>

\* C7 as stated: the shipped layout is the seven fields _unk_0 (12), changed_0,
\* _unk_16 (44), changed_1, _unk_64 (116), changed_2, _unk_184 (716).
C7_ShippedLayoutSevenFields ==
    (Built /\ cls = CtloStruct) => construct.subcons = SevenFields

\* C7 amended: the shipped layout is 225 fields of 4 bytes, one at every multiple of 4
\* below 900: changed_0 at 12, changed_1 at 60, changed_2 at 180, and at every other
\* offset o a 4 byte filler named _unk_<o>.
C7_ShippedLayoutAligned ==
    (Built /\ cls = CtloStruct) =>
        /\ construct.state = "ok"
        /\ Len(construct.subcons) = 225
        /\ \A i \in 1..Len(construct.subcons) :
              LET o == 4 * (i - 1)
              IN construct.subcons[i] =
                    IF o = 12 THEN [name |-> Attr(0), struct |-> Int32ul]
                    ELSE IF o = 60 THEN [name |-> Attr(1), struct |-> Int32ul]
                    ELSE IF o = 180 THEN [name |-> Attr(2), struct |-> Int32ul]
                    ELSE [name |-> Unk(o), struct |-> Bytes(4)]

C7_Witness == Built /\ cls = CtloStruct /\ construct.state = "ok"

\* C9: a direct call of _fill_in on a gap of fill > 0 bytes at pos (alignment >= 1)
\* returns pos + fill and emits fillers covering exactly [pos, pos + fill): one of fill
\* bytes if fill <= alignment; else a leading one of fill mod alignment bytes only when
\* that is not 0, then fillers of alignment bytes; each named after its own offset.
C9_GapFillPolicy ==
    LET fill == filled.offset - filled.pos
        a == cls.align
        d == filled.struct_dict
    IN (filled.called /\ fill > 0 /\ a >= 1) =>
        /\ filled.raised = ""
        /\ filled.ret = filled.pos + fill
        /\ Struct_sizeof(d) = fill
        /\ \A i \in 1..Len(d) :
              /\ d[i].name = Unk(filled.pos + SumSizes(d, 1, i - 1))
              /\ d[i].struct.kind = "Bytes"
        /\ IF fill <= a
           THEN d = <<[name |-> Unk(filled.pos), struct |-> Bytes(fill)]>>
           ELSE LET r == fill % a
                    lead == IF r # 0 THEN 1 ELSE 0
                IN /\ Len(d) = lead + (fill \div a)
                   /\ r # 0 => d[1].struct = Bytes(r)
                   /\ \A i \in (lead + 1)..Len(d) : d[i].struct = Bytes(a)

C9_Witness ==
    /\ filled.called /\ filled.raised = ""
    /\ cls.align >= 2
    /\ filled.offset - filled.pos > 2 * cls.align
    /\ (filled.offset - filled.pos) % cls.align # 0
    /\ Len(filled.struct_dict) >= 3
    /\ filled.pos > 0

(***************************************************************************)
(* Files. A path is a name in one directory; bkp = k > 0 is the k-th       *)
(* backup name unique_path can give beside it.                             *)
(***************************************************************************)
Path(name) == [name |-> name, bkp |-> 0]
Names == {"a", "b"}
Paths == {[name |-> nm, bkp |-> k] : nm \in Names, k \in 0..MaxBkp}

Missing == [exists |-> FALSE, data |-> <<>>]
File(data) == [exists |-> TRUE, data |-> data]

unique_path(files, path) ==
    {q \in Paths : q.name = path.name /\ q.bkp > 0 /\ ~files[q].exists}

(***************************************************************************)
(* The buffers and files of the model: zero bytes, then at most `pokes`    *)
(* times one byte set; the zero buffer one byte short, and one byte long.  *)
(***************************************************************************)
Zeros(n) == [i \in 1..n |-> 0]

Poke(buf, pokes) ==
    [i \in 1..Len(buf) |->
        IF \E p \in pokes : p.at = i - 1
        THEN (CHOOSE p \in pokes : p.at = i - 1).byte
        ELSE buf[i]]

RECURSIVE Buffers(_, _, _, _)
Buffers(size, ats, bytes, pokes) ==
    IF pokes = 0 THEN {Zeros(size)}
    ELSE LET fewer == Buffers(size, ats, bytes, pokes - 1)
         IN fewer \cup {Poke(b, {[at |-> at, byte |-> byte]}) :
                            b \in fewer, at \in {x \in ats : x < size}, byte \in bytes}

Short(b) == SubSeq(b, 1, Len(b) - 1)
Long(b) == Append(b, 1)

(***************************************************************************)
(* CTLOFile: construction, load, field write.                              *)
(***************************************************************************)
CTLOFile(data, path) ==
    LET p == Struct_parse(construct, data)
    IN IF p.raised # ""
       THEN [raised |-> p.raised, self |-> NoObj]
       ELSE [raised |-> "",
             self |-> [state |-> "ok", data |-> data, parsed |-> p.value, path |-> path]]

repr(self) ==
    IF self.path = None
    THEN [raised |-> "AttributeError", text |-> None]
    ELSE [raised |-> "", text |-> self.path]

Counted == frame.ops < MaxOps
Tick == [NoFrame EXCEPT !.ops = frame.ops + 1]

Construct(data) ==
    /\ pc = "idle" /\ Counted
    /\ LET r == CTLOFile(data, None)
       IN /\ obj' = IF r.raised = "" THEN r.self ELSE obj
          /\ err' = [op |-> "init", at |-> "parse", exc |-> r.raised]
    /\ frame' = Tick
    /\ UNCHANGED <<cls, construct, filled, fs, pc, args, out>>

Load(path) ==
    /\ pc = "idle" /\ Counted
    /\ IF ~fs[path].exists
       THEN /\ err' = [op |-> "load", at |-> "read", exc |-> "FileNotFoundError"]
            /\ obj' = obj
       ELSE LET r == CTLOFile(fs[path].data, path)
            IN /\ obj' = IF r.raised = "" THEN r.self ELSE obj
               /\ err' = [op |-> "load", at |-> "parse", exc |-> r.raised]
    /\ frame' = Tick
    /\ UNCHANGED <<cls, construct, filled, fs, pc, args, out>>

SetItem(key, value) ==
    /\ pc = "idle" /\ Counted
    /\ obj.state = "ok"
    /\ obj' = [obj EXCEPT !.parsed = DictUpdate(@, <<[name |-> key, value |-> value]>>)]
    /\ err' = NoErr
    /\ frame' = Tick
    /\ UNCHANGED <<cls, construct, filled, fs, pc, args, out>>

(***************************************************************************)
(* CTLOFile.save, one action per statement that builds or touches a file.  *)
(***************************************************************************)
NoPathError(self) == IF repr(self).raised # "" THEN repr(self).raised ELSE "ValueError"

Save(path, backup) ==
    /\ pc = "idle" /\ Counted
    /\ obj.state = "ok"
    /\ LET target == IF path # None THEN path ELSE obj.path
       IN IF target = None
          THEN /\ err' = [op |-> "save", at |-> "path", exc |-> NoPathError(obj)]
               /\ frame' = Tick
               /\ pc' = "idle"
          ELSE /\ (backup /\ fs[target].exists) => unique_path(fs, target) # {}
               /\ err' = NoErr
               /\ frame' = [path |-> target, backup |-> backup, data |-> <<>>,
                            ops |-> frame.ops + 1]
               /\ pc' = "build"
    /\ UNCHANGED <<cls, construct, filled, fs, obj, args, out>>

SaveBuildAfterOpen ==
    /\ pc = "build"
    /\ LET r == Struct_build(construct, _build(obj.parsed))
       IN IF r.raised # ""
          THEN /\ err' = [op |-> "save", at |-> "build", exc |-> r.raised]
               /\ pc' = "idle"
               /\ frame' = frame
               /\ fs' = [fs EXCEPT ![frame.path] = File(<<>>)]
          ELSE /\ frame' = [frame EXCEPT !.data = r.data]
               /\ pc' = "backup"
               /\ err' = err
               /\ fs' = [fs EXCEPT ![frame.path] = File(<<>>)]
    /\ UNCHANGED <<cls, construct, filled, obj, args, out>>
SaveBuild ==
    /\ pc = "build"
    /\ LET r == Struct_build(construct, _build(obj.parsed))
       IN IF r.raised # ""
          THEN /\ err' = [op |-> "save", at |-> "build", exc |-> r.raised]
               /\ pc' = "idle"
               /\ frame' = frame
          ELSE /\ frame' = [frame EXCEPT !.data = r.data]
               /\ pc' = "backup"
               /\ err' = err
    /\ UNCHANGED <<cls, construct, filled, fs, obj, args, out>>

SaveBackup ==
    /\ pc = "backup"
    /\ IF frame.backup /\ fs[frame.path].exists
       THEN \E bkp_path \in unique_path(fs, frame.path) :
                fs' = [fs EXCEPT ![bkp_path] = fs[frame.path]]
       ELSE fs' = fs
    /\ pc' = "write"
    /\ UNCHANGED <<cls, construct, filled, obj, frame, err, args, out>>

SaveWrite ==
    /\ pc = "write"
    /\ fs' = [fs EXCEPT ![frame.path] = File(frame.data)]
    /\ pc' = "idle"
    /\ UNCHANGED <<cls, construct, filled, obj, frame, err, args, out>>

(***************************************************************************)
(* A session on one record kind: the module is imported (the layout is     *)
(* built), a file may exist at "a". The record kinds are CtloStruct scaled *)
(* down: one Int32ul field in a few bytes of filler.                       *)
(***************************************************************************)
Kinds ==
    {init_subclass(MaxSize + 3, MaxAlign - 1, <<Field(o, Int32ul, Attr(0))>>) :
        o \in {0, MaxSize - 2}}

FieldBytes(c) == {c.body[1].offset, c.body[1].offset + 3}

Contents(c) ==
    Buffers(c.size, FieldBytes(c), {1, 127}, MaxPokes)
    \cup {Short(Zeros(c.size)), Long(Zeros(c.size))}

ConstructData(c) ==
    {Zeros(c.size), Poke(Zeros(c.size), {[at |-> c.body[1].offset, byte |-> 1]}),
     Short(Zeros(c.size)), Long(Zeros(c.size))}

Writes ==
    {<<Attr(0), IntVal(1)>>, <<Attr(0), IntVal(-1)>>,
     <<Unk(0), BytesVal(<<127>>)>>, <<Unk(0), BytesVal(<<1, 1, 1, 1, 1>>)>>}

InitSave ==
    /\ cls \in Kinds
    /\ construct = __new__(cls)
    /\ filled = NoFilled
    /\ \E c \in Contents(cls) \cup {<<>>} :
          fs = [p \in Paths |-> IF p = Path("a") /\ c # <<>> THEN File(c) ELSE Missing]
    /\ obj = NoObj /\ pc = "idle" /\ frame = NoFrame /\ err = NoErr
    /\ args = NoArgs /\ out = <<>>

NextSave ==
    \/ \E data \in ConstructData(cls) : Construct(data)
    \/ \E nm \in Names : Load(Path(nm))
    \/ \E w \in Writes : SetItem(w[1], w[2])
    \/ \E path \in {None, Path("b")}, backup \in BOOLEAN : Save(path, backup)
    \/ SaveBuild
    \/ SaveBackup
    \/ SaveWrite

SpecSave == InitSave /\ [][NextSave]_vars

(***************************************************************************)
(* Claims about the record codec and save.                                 *)
(***************************************************************************)
Unmutated == obj.parsed = Struct_parse(construct, obj.data).value

\* C1: when save has built the parsed tree of a record made from a buffer of exactly
\* total_size bytes and no field was written, the built bytes are the buffer's bytes.
C1_RoundTrip ==
    (pc = "backup" /\ Len(obj.data) = cls.size /\ Unmutated) => frame.data = obj.data

C1_Witness ==
    /\ pc = "backup" /\ Len(obj.data) = cls.size /\ Unmutated
    /\ Lookup(obj.parsed, Attr(0)).n > 0
    /\ frame.data = obj.data

BuildOf(self) == Struct_build(construct, _build(self.parsed))

\* C3: in every save the build completes first and touches no file; then the backup
\* copy is made, exactly when backup is set and the destination exists, to a path that
\* did not exist, leaving the destination as it was; then the destination is written;
\* a failed build ends the save with every file unchanged.
C3_SaveOrdering ==
    [][/\ pc' = "backup" =>
            /\ pc = "build" /\ fs' = fs
            /\ BuildOf(obj).raised = "" /\ frame'.data = BuildOf(obj).data
       /\ pc = "build" /\ BuildOf(obj).raised # "" => pc' = "idle" /\ fs' = fs
       /\ pc \notin {"backup", "write"} => fs' = fs
       /\ pc' = "write" => pc = "backup"
       /\ pc = "backup" =>
            /\ pc' = "write"
            /\ fs'[frame.path] = fs[frame.path]
            /\ IF frame.backup /\ fs[frame.path].exists
               THEN \E q \in Paths : /\ ~fs[q].exists
                                     /\ fs' = [fs EXCEPT ![q] = fs[frame.path]]
               ELSE fs' = fs
       /\ pc = "write" => pc' = "idle" /\ fs' = [fs EXCEPT ![frame.path] = File(frame.data)]
      ]_vars

C3_Witness ==
    /\ pc = "idle" /\ frame.backup /\ frame.path # None
    /\ fs[frame.path] = File(frame.data)
    /\ \E q \in Paths : q.bkp > 0 /\ fs[q].exists /\ fs[q].data # frame.data

\* C5: a record exists only over a buffer of exactly total_size bytes.
C5_ExactConsumption == obj.state = "ok" => Len(obj.data) = cls.size

\* C6: save with no loaded-from path and no path argument fails with ValueError,
\* before the build.
C6_SaveWithoutPathValueError ==
    (err.op = "save" /\ err.at = "path") =>
        (err.exc = "ValueError" /\ pc = "idle" /\ frame.data = <<>>)

(***************************************************************************)
(* Constructed.raw, Constructed.diff and the diff command.                 *)
(***************************************************************************)
Min(a, b) == IF a <= b THEN a ELSE b

(* data[offset: offset + size] *)
Slice(data, offset, size) == SubSeq(data, offset + 1, Min(offset + size, Len(data)))

raw(table, self, key) ==
    LET e == table[CHOOSE i \in 1..Len(table) : table[i].name = key]
    IN Slice(self.data, e.offset, e.size)

getitem(self, key) == _clean(Lookup(self.parsed, key))

(* keys: None, or a collection of names; an empty collection is falsy *)
NoKeys == [given |-> FALSE, names |-> {}]
KeySet(names) == [given |-> TRUE, names |-> names]
Truthy(keys) == keys.given /\ keys.names # {}

IsNumberOrStr(v) == v.t = "int"
IsBytes(v) == v.t = "bytes"
NotEqual(v, b) == ~(v.t = "bytes" /\ v.b = b)

Render(own_val, own_raw, max_len, byte_diff) ==
    IF ~byte_diff /\ NotEqual(own_val, own_raw) /\ ~IsNumberOrStr(own_val)
    THEN "pseudo_json_diff"
    ELSE IF max_len # 0 /\ IsBytes(own_val) /\ Len(own_raw) > max_len
    THEN "unified_byte_line_diff"
    ELSE "two_lines"

diff(self, other, max_len, byte_diff, keys) ==
    LET table == _offsets_and_sizes(construct)
        differing == SelectSeq(table, LAMBDA e :
                        ~ \/ Truthy(keys) /\ e.name \notin keys.names
                          \/ raw(table, other, e.name) = Slice(self.data, e.offset, e.size))
    IN [i \in 1..Len(differing) |->
          [key |-> differing[i].name,
           render |-> Render(getitem(self, differing[i].name),
                             Slice(self.data, differing[i].offset, differing[i].size),
                             max_len, byte_diff)]]

startswith_unk(name) == name[1] = "_unk"

(* the diff command: keys is args.keys, None or the list a "--keys" option gave *)
DiffKeys(a) ==
    LET table == _offsets_and_sizes(construct)
    IN IF a.unknowns
       THEN KeySet({table[i].name : i \in {j \in 1..Len(table) : startswith_unk(table[j].name)}})
       ELSE IF Truthy(a.keys) THEN KeySet(a.keys.names) ELSE NoKeys

CmdMaxLen == 1
DefaultMaxLen == 30

DiffOut(a, keys) ==
    LET obj_a == CTLOFile(fs[a.paths[1]].data, a.paths[1])
        obj_b == CTLOFile(fs[a.paths[2]].data, a.paths[2])
    IN IF ~fs[a.paths[1]].exists \/ ~fs[a.paths[2]].exists
       THEN [raised |-> "FileNotFoundError", out |-> <<>>]
       ELSE IF obj_a.raised # "" THEN [raised |-> obj_a.raised, out |-> <<>>]
       ELSE IF obj_b.raised # "" THEN [raised |-> obj_b.raised, out |-> <<>>]
       ELSE [raised |-> "", out |-> diff(obj_a.self, obj_b.self, a.max_len, a.binary, keys)]

(* d2ro_save.py diff files PATH PATH [--binary] [--unknowns | --keys KEY ...] *)
CliDiff(paths, binary, unknowns, keys) ==
    /\ args = NoArgs
    /\ ~(unknowns /\ keys.given)
    /\ keys.given => keys.names # {}
    /\ LET a == [paths |-> paths, binary |-> binary, unknowns |-> unknowns, keys |-> keys,
                 max_len |-> CmdMaxLen]
           r == DiffOut(a, DiffKeys(a))
       IN /\ args' = a
          /\ out' = r.out
          /\ err' = [op |-> "command", at |-> "", exc |-> r.raised]
    /\ UNCHANGED <<cls, construct, filled, fs, obj, pc, frame>>

(* CTLOFile.load(path).diff(CTLOFile.load(other), byte_diff=byte_diff, keys=keys) *)
Diff(paths, byte_diff, keys) ==
    /\ args = NoArgs
    /\ LET a == [paths |-> paths, binary |-> byte_diff, unknowns |-> FALSE, keys |-> keys,
                 max_len |-> DefaultMaxLen]
           r == DiffOut(a, keys)
       IN /\ args' = a
          /\ out' = r.out
          /\ err' = [op |-> "diff", at |-> "", exc |-> r.raised]
    /\ UNCHANGED <<cls, construct, filled, fs, obj, pc, frame>>

(***************************************************************************)
(* One diff of two files: by the diff command, or by a call of diff.       *)
(***************************************************************************)
DiffContents ==
    Buffers(CtloStruct.size, {0, 12}, {1}, MaxPokes)
    \cup {Short(Zeros(CtloStruct.size))}

KeyChoices == {NoKeys, KeySet({Attr(0)}), KeySet({Unk(0), Attr(2)})}

InitDiff ==
    /\ cls = CtloStruct
    /\ construct = __new__(CtloStruct)
    /\ filled = NoFilled
    /\ \E ca, cb \in DiffContents :
          fs = [p \in Paths |-> IF p = Path("a") THEN File(ca)
                                ELSE IF p = Path("b") THEN File(cb) ELSE Missing]
    /\ obj = NoObj /\ pc = "idle" /\ frame = NoFrame /\ err = NoErr
    /\ args = NoArgs /\ out = <<>>

NextDiff ==
    \E paths \in {<<Path("a"), Path("b")>>, <<Path("b"), Path("a")>>}, binary \in BOOLEAN :
        \/ \E unknowns \in BOOLEAN, keys \in KeyChoices : CliDiff(paths, binary, unknowns, keys)
        \/ \E keys \in {NoKeys, KeySet({})} : Diff(paths, binary, keys)

SpecDiff == InitDiff /\ [][NextDiff]_vars

(***************************************************************************)
(* Claims about the diff engine.                                           *)
(***************************************************************************)
Ran == args # NoArgs /\ err.exc = ""

Reported(o) == {o[i].key : i \in 1..Len(o)}

Layout == OffsetsFor(construct.subcons, 1, Len(construct.subcons), 0).items

BytesOf(path, e) == SubSeq(fs[path].data, e.offset + 1, e.offset + e.size)

PassesFilter(name) ==
    IF args.unknowns THEN name[1] = "_unk"
    ELSE IF args.keys.given THEN name \in args.keys.names
    ELSE TRUE

Differing(table, paths) ==
    {table[i].name : i \in
        {j \in 1..Len(table) :
            /\ PassesFilter(table[j].name)
            /\ BytesOf(paths[1], table[j]) # BytesOf(paths[2], table[j])}}

Swapped == [args EXCEPT !.paths = <<args.paths[2], args.paths[1]>>]

Rerun(a) == IF err.op = "command" THEN DiffOut(a, DiffKeys(a)) ELSE DiffOut(a, a.keys)

\* C8: a diff reports exactly the fields that pass the key filter (all when no filter
\* is given, the _unk fillers in unknowns-only mode, the given keys otherwise) and
\* whose raw bytes differ between the two files, and the same set with the files swapped.
C8_DiffReportedSet ==
    Ran =>
        /\ Reported(out) = Differing(Layout, args.paths)
        /\ Reported(out) = Reported(Rerun(Swapped).out)

IsComposite(v) == v.t \notin {"bytes", "int"}

Expected(table, o) ==
    LET k == CHOOSE j \in 1..Len(table) : table[j].name = o.key
        v == parse_field(construct.subcons[k].struct, BytesOf(args.paths[1], table[k]))
    IN IF args.binary \/ (v.t = "bytes" /\ Len(v.b) > args.max_len)
       THEN "unified_byte_line_diff"
       ELSE IF IsComposite(v) THEN "pseudo_json_diff"
       ELSE "two_lines"

\* C10: a reported field is rendered as a hex byte diff if byte-level mode is forced
\* or its value is a byte array longer than the threshold, else as a structural diff
\* if its value is composite, else as the two-line value diff.
C10_RenderingDispatch ==
    Ran => \A i \in 1..Len(out) : out[i].render = Expected(Layout, out[i])

\* C8 for every filter but the empty key collection: the reported set is exactly the
\* filtered differing fields, and it is the same with the files swapped.
C8_NonEmptyFilterReportedSet ==
    (Ran /\ ~(args.keys.given /\ args.keys.names = {})) =>
        /\ Reported(out) = Differing(Layout, args.paths)
        /\ Reported(out) = Reported(Rerun(Swapped).out)

====
